---- MODULE Spec2Model ----
(***************************************************************************)
(* Model of the two primitives of rust-stm's transaction kernel:           *)
(*                                                                         *)
(*   ControlBlock (stm-core/src/transaction/control_block.rs): an atomic   *)
(*   flag `blocked`, the handle of the thread that ran `new`, and the      *)
(*   set_changed / wait protocol on top of std::thread::park_timeout and   *)
(*   Thread::unpark.  Specification: Spec (safety), SpecFair (liveness).   *)
(*                                                                         *)
(*   LogVar (src/transaction/log_var.rs): the five-variant log entry and   *)
(*   its read / write / obsolete / into_read_value operations.             *)
(*   Specification: SpecLog.                                               *)
(***************************************************************************)
EXTENDS Integers, Sequences, FiniteSets, TLC

(***************************************************************************)
(* Bounds of the model.                                                    *)
(***************************************************************************)
\* number of threads
NumThreads == 2
\* number of ControlBlocks that can be constructed in one behaviour
NumCB == 2
\* number of calls (new, set_changed, wait) started in one behaviour
MaxCalls == 4
\* the count of timeout expiries after the flag was set saturates here
TimeoutCap == 2
\* values carried by log entries are 0..MaxVal
MaxVal == 2

Threads == 1..NumThreads
CBs == 1..NumCB
Vals == 0..MaxVal

\* "no thread" / "no control block"
NoThread == 0
NoCB == 0

VARIABLES
    \* ---- ControlBlock ----
    thread,     \* thread[c]: ControlBlock.thread, NoThread while c is not constructed
    blocked,    \* blocked[c]: ControlBlock.blocked (AtomicBool)
    token,      \* token[t]: the park token of thread t (std::thread park/unpark)
    pc,         \* pc[t]: position of thread t inside set_changed / wait
    cur,        \* cur[t]: the ControlBlock of the call thread t is in
    old,        \* old[t]: value returned by the swap of t's set_changed call
    preDone,    \* preDone[t]: set_changed calls completed on cur[t] when t's wait started
    susp,       \* susp[t]: t's current wait has called park_timeout
    touts,      \* touts[t]: timeout expiries in t's wait after a set_changed completed
    setCalls,   \* setCalls[c]: set_changed calls that performed their swap on c
    setDone,    \* setDone[c]: set_changed calls that returned on c
    unparks,    \* unparks[c]: unpark signals issued through c
    calls,      \* number of calls of new, set_changed and wait started so far
    sigWin,     \* sigWin[t]: the unpark for t's wait was issued while t, the bound
                \* thread, was between its load and its call of park_timeout
    retd,       \* retd[c]: a wait on c has returned
    preRet,     \* preRet[t]: a wait on cur[t] had returned when t's wait started
    \* ---- LogVar ----
    entry,      \* the log entry (self), or Gone after a consuming call returned None
    op,         \* name of the last operation applied to the entry
    arg,        \* argument of the last write
    pre,        \* the entry the last operation was applied to
    ret,        \* the value the last operation returned
    prevOp,     \* name of the operation before the last one
    prevPre,    \* the entry the operation before the last one was applied to
    prevRet,    \* the value the operation before the last one returned
    base,       \* the entry as the log got it: as created, or as obsolete returned it
    rsince,     \* read() has been called since base
    wpre,       \* the entry the last write since base was applied to, Gone if none
    warg,       \* the argument of the last write since base
    createdAs,  \* the variant the entry was created as ("Read" or "Write")
    everRead,   \* read() has been called since the entry was created
    obsCalled   \* obsolete() has been called since the entry was created

cbvars == <<thread, blocked, token, pc, cur, old, preDone, susp, touts,
            setCalls, setDone, unparks, calls, sigWin, retd, preRet>>
logvars == <<entry, op, arg, pre, ret, prevOp, prevPre, prevRet,
             base, rsince, wpre, warg, createdAs, everRead, obsCalled>>
vars == <<cbvars, logvars>>

Min(a, b) == IF a < b THEN a ELSE b

(***************************************************************************)
(* ControlBlock                                                            *)
(***************************************************************************)

\* variant of InitBlocked: AtomicBool::new(false), a new block is not blocked
InitBlocked_False == FALSE

\* ControlBlock::new: blocked: AtomicBool::new(true)
InitBlocked == TRUE

\* set_changed: the value stored by self.blocked.swap(false, SeqCst)
SwapValue == FALSE

\* variant of ShouldUnpark: every call unparks, whatever its swap returned
ShouldUnpark_Always(o) == TRUE

\* set_changed: `if self.blocked.swap(..)` -- unpark only when the swap
\* returned true
ShouldUnpark(o) == o

\* wait: `while self.blocked.load(SeqCst)` -- the loop keeps going while the
\* flag reads true
LoopCond(b) == b

\* variant of WaitEntry: a do-while loop that parks before its first load
WaitEntry_ParkFirst == "w_park"

\* wait: a while loop, the flag is loaded before the first park
WaitEntry == "w_load"

\* variant of AfterPark: `if` in place of `while`, wait returns after one park
AfterPark_Return == "w_ret"

\* variant of AfterPark: the park is repeated without loading the flag again
AfterPark_NoRecheck == "w_park"

\* wait: after park_timeout returns the loop goes back to the load
AfterPark == "w_load"

\* variant of ParkHasTimeout: thread::park(), the park never times out
ParkHasTimeout_Never == FALSE

\* wait: thread::park_timeout(self.park_timeout) -- the park is bounded
\* (thread::park() is commented out in the source)
ParkHasTimeout == TRUE

InWait(t) == pc[t] \in {"w_load", "w_park", "parked", "w_ret"}

\* let ctrl = ControlBlock::new() on thread t; blocks are numbered in the
\* order of their construction
New(t) ==
    /\ pc[t] = "idle"
    /\ calls < MaxCalls
    /\ calls' = calls + 1
    /\ \E c \in CBs :
        /\ thread[c] = NoThread
        /\ \A d \in CBs : d < c => thread[d] # NoThread
        /\ thread' = [thread EXCEPT ![c] = t]
        /\ blocked' = [blocked EXCEPT ![c] = InitBlocked]
    /\ UNCHANGED <<token, pc, cur, old, preDone, susp, touts,
                   setCalls, setDone, unparks,
                   sigWin, retd, preRet>>

\* set_changed, line 52: the atomic swap.  When the swap returned false the
\* call returns at once.
SetChangedSwap(t, c) ==
    /\ pc[t] = "idle"
    /\ thread[c] # NoThread
    /\ calls < MaxCalls
    /\ calls' = calls + 1
    /\ blocked' = [blocked EXCEPT ![c] = SwapValue]
    /\ setCalls' = [setCalls EXCEPT ![c] = @ + 1]
    /\ IF ShouldUnpark(blocked[c])
          THEN /\ pc' = [pc EXCEPT ![t] = "sc_unpark"]
               /\ cur' = [cur EXCEPT ![t] = c]
               /\ old' = [old EXCEPT ![t] = blocked[c]]
               /\ UNCHANGED setDone
          ELSE /\ setDone' = [setDone EXCEPT ![c] = @ + 1]
               /\ UNCHANGED <<pc, cur, old>>
    /\ UNCHANGED <<thread, token, preDone, susp, touts, unparks,
                   sigWin, retd, preRet>>

\* variant of UnparkTarget: thread::current().unpark(), the caller of
\* set_changed gets the token
UnparkTarget_Caller(t, c) == t

\* set_changed: self.thread.unpark() -- the token goes to the thread that
\* ran ControlBlock::new
UnparkTarget(t, c) == thread[c]

\* set_changed, line 54: self.thread.unpark(), then the call returns
SetChangedUnpark(t) ==
    /\ pc[t] = "sc_unpark"
    /\ token' = [token EXCEPT ![UnparkTarget(t, cur[t])] = TRUE]
    /\ sigWin' = [u \in Threads |->
                    IF u = thread[cur[t]] /\ pc[u] = "w_park" /\ cur[u] = cur[t]
                       THEN TRUE ELSE sigWin[u]]
    /\ unparks' = [unparks EXCEPT ![cur[t]] = @ + 1]
    /\ setDone' = [setDone EXCEPT ![cur[t]] = @ + 1]
    /\ pc' = [pc EXCEPT ![t] = "idle"]
    /\ cur' = [cur EXCEPT ![t] = NoCB]
    /\ old' = [old EXCEPT ![t] = FALSE]
    /\ UNCHANGED <<thread, blocked, preDone, susp, touts, setCalls, calls,
                   retd, preRet>>

\* thread t calls ctrl.wait() on block c (any thread may do so)
WaitStart(t, c) ==
    /\ pc[t] = "idle"
    /\ thread[c] # NoThread
    /\ calls < MaxCalls
    /\ calls' = calls + 1
    /\ pc' = [pc EXCEPT ![t] = WaitEntry]
    /\ cur' = [cur EXCEPT ![t] = c]
    /\ preDone' = [preDone EXCEPT ![t] = setDone[c]]
    /\ preRet' = [preRet EXCEPT ![t] = retd[c]]
    /\ UNCHANGED <<thread, blocked, token, old, susp, touts,
                   setCalls, setDone, unparks,
                   sigWin, retd>>

\* wait, line 64: self.blocked.load(SeqCst) and the loop test
WaitLoad(t) ==
    /\ pc[t] = "w_load"
    /\ pc' = [pc EXCEPT ![t] = IF LoopCond(blocked[cur[t]]) THEN "w_park" ELSE "w_ret"]
    /\ UNCHANGED <<thread, blocked, token, cur, old, preDone, susp, touts,
                   setCalls, setDone, unparks, calls,
                   sigWin, retd, preRet>>

\* wait, line 73: the call of thread::park_timeout.  A token that is already
\* there is consumed and the call returns without suspending the thread.
ParkEnter(t) ==
    /\ pc[t] = "w_park"
    /\ susp' = [susp EXCEPT ![t] = TRUE]
    /\ IF token[t]
          THEN /\ token' = [token EXCEPT ![t] = FALSE]
               /\ pc' = [pc EXCEPT ![t] = AfterPark]
          ELSE /\ pc' = [pc EXCEPT ![t] = "parked"]
               /\ UNCHANGED token
    /\ UNCHANGED <<thread, blocked, cur, old, preDone, touts,
                   setCalls, setDone, unparks, calls,
                   sigWin, retd, preRet>>

\* the suspended thread is woken by an unpark: the token is consumed
ParkUnparked(t) ==
    /\ pc[t] = "parked"
    /\ token[t]
    /\ token' = [token EXCEPT ![t] = FALSE]
    /\ pc' = [pc EXCEPT ![t] = AfterPark]
    /\ UNCHANGED <<thread, blocked, cur, old, preDone, susp, touts,
                   setCalls, setDone, unparks, calls,
                   sigWin, retd, preRet>>

\* the park_timeout interval expires with no token
ParkTimeout(t) ==
    /\ ParkHasTimeout
    /\ pc[t] = "parked"
    /\ ~token[t]
    /\ pc' = [pc EXCEPT ![t] = AfterPark]
    /\ touts' = [touts EXCEPT ![t] =
                    IF setDone[cur[t]] >= 1 THEN Min(@ + 1, TimeoutCap) ELSE @]
    /\ UNCHANGED <<thread, blocked, token, cur, old, preDone, susp,
                   setCalls, setDone, unparks, calls,
                   sigWin, retd, preRet>>

\* park_timeout may return spuriously
ParkSpurious(t) ==
    /\ pc[t] = "parked"
    /\ ~token[t]
    /\ pc' = [pc EXCEPT ![t] = AfterPark]
    /\ UNCHANGED <<thread, blocked, token, cur, old, preDone, susp, touts,
                   setCalls, setDone, unparks, calls,
                   sigWin, retd, preRet>>

\* wait, line 75: the call returns to its caller
WaitReturn(t) ==
    /\ pc[t] = "w_ret"
    /\ pc' = [pc EXCEPT ![t] = "idle"]
    /\ cur' = [cur EXCEPT ![t] = NoCB]
    /\ preDone' = [preDone EXCEPT ![t] = 0]
    /\ susp' = [susp EXCEPT ![t] = FALSE]
    /\ touts' = [touts EXCEPT ![t] = 0]
    /\ retd' = [retd EXCEPT ![cur[t]] = TRUE]
    /\ sigWin' = [sigWin EXCEPT ![t] = FALSE]
    /\ preRet' = [preRet EXCEPT ![t] = FALSE]
    /\ UNCHANGED <<thread, blocked, token, old, setCalls, setDone, unparks, calls>>

\* the steps of wait that the waiting thread and the timer take on their own
WaitStep(t) ==
    \/ WaitLoad(t)
    \/ ParkEnter(t)
    \/ ParkUnparked(t)
    \/ ParkTimeout(t)

InitCB ==
    /\ thread = [c \in CBs |-> NoThread]
    /\ blocked = [c \in CBs |-> InitBlocked]
    /\ token = [t \in Threads |-> FALSE]
    /\ pc = [t \in Threads |-> "idle"]
    /\ cur = [t \in Threads |-> NoCB]
    /\ old = [t \in Threads |-> FALSE]
    /\ preDone = [t \in Threads |-> 0]
    /\ susp = [t \in Threads |-> FALSE]
    /\ touts = [t \in Threads |-> 0]
    /\ setCalls = [c \in CBs |-> 0]
    /\ setDone = [c \in CBs |-> 0]
    /\ unparks = [c \in CBs |-> 0]
    /\ calls = 0
    /\ sigWin = [t \in Threads |-> FALSE]
    /\ retd = [c \in CBs |-> FALSE]
    /\ preRet = [t \in Threads |-> FALSE]

(***************************************************************************)
(* LogVar                                                                  *)
(***************************************************************************)

\* Option<T>
None == <<"None">>
Some(x) == <<"Some", x>>

\* the five variants of enum LogVar
Read(r) == <<"Read", r>>
Write(w) == <<"Write", w>>
ReadWrite(o, w) == <<"ReadWrite", o, w>>
ReadObsolete(o) == <<"ReadObsolete", o>>
ReadObsoleteWrite(o, w) == <<"ReadObsoleteWrite", o, w>>

LogVar ==
    {Read(v) : v \in Vals} \cup {Write(v) : v \in Vals}
        \cup {ReadWrite(o, w) : o, w \in Vals}
        \cup {ReadObsolete(v) : v \in Vals}
        \cup {ReadObsoleteWrite(o, w) : o, w \in Vals}

\* the entry was moved into a consuming call and nothing came back
Gone == <<"Gone">>
\* the unit value ()
Unit == <<"()">>

Tag(e) == e[1]

\* variant of read: ReadWrite hands out the original as the current value
read_StaleValue(e) ==
    CASE Tag(e) = "Read" -> [self |-> e, val |-> <<e[2], Some(e[2])>>]
      [] Tag(e) = "Write" -> [self |-> e, val |-> <<e[2], None>>]
      [] Tag(e) = "ReadWrite" -> [self |-> e, val |-> <<e[2], Some(e[2])>>]
      [] Tag(e) = "ReadObsolete" ->
            [self |-> Read(e[2]), val |-> <<e[2], Some(e[2])>>]
      [] Tag(e) = "ReadObsoleteWrite" ->
            [self |-> ReadWrite(e[2], e[3]), val |-> <<e[3], Some(e[2])>>]

\* variant of read: the assignment `*self = this` is missing, the obsolete
\* variants are left as they are
read_NoUpgrade(e) ==
    CASE Tag(e) = "Read" -> [self |-> e, val |-> <<e[2], Some(e[2])>>]
      [] Tag(e) = "Write" -> [self |-> e, val |-> <<e[2], None>>]
      [] Tag(e) = "ReadWrite" -> [self |-> e, val |-> <<e[3], Some(e[2])>>]
      [] Tag(e) = "ReadObsolete" -> [self |-> e, val |-> <<e[2], Some(e[2])>>]
      [] Tag(e) = "ReadObsoleteWrite" -> [self |-> e, val |-> <<e[3], Some(e[2])>>]

\* variant of read: reading a Write entry records the written value as the
\* original and upgrades the entry to ReadWrite
read_WriteGainsOriginal(e) ==
    CASE Tag(e) = "Read" -> [self |-> e, val |-> <<e[2], Some(e[2])>>]
      [] Tag(e) = "Write" -> [self |-> ReadWrite(e[2], e[2]), val |-> <<e[2], Some(e[2])>>]
      [] Tag(e) = "ReadWrite" -> [self |-> e, val |-> <<e[3], Some(e[2])>>]
      [] Tag(e) = "ReadObsolete" ->
            [self |-> Read(e[2]), val |-> <<e[2], Some(e[2])>>]
      [] Tag(e) = "ReadObsoleteWrite" ->
            [self |-> ReadWrite(e[2], e[3]), val |-> <<e[3], Some(e[2])>>]

\* variant of read: the upgrade of ReadObsoleteWrite returns the original as
\* the current value
read_ObsoleteStaleValue(e) ==
    CASE Tag(e) = "Read" -> [self |-> e, val |-> <<e[2], Some(e[2])>>]
      [] Tag(e) = "Write" -> [self |-> e, val |-> <<e[2], None>>]
      [] Tag(e) = "ReadWrite" -> [self |-> e, val |-> <<e[3], Some(e[2])>>]
      [] Tag(e) = "ReadObsolete" ->
            [self |-> Read(e[2]), val |-> <<e[2], Some(e[2])>>]
      [] Tag(e) = "ReadObsoleteWrite" ->
            [self |-> ReadWrite(e[2], e[3]), val |-> <<e[2], Some(e[2])>>]

\* variant of read: the upgrade of ReadObsoleteWrite keeps only the original
read_ObsoleteDropsWrite(e) ==
    CASE Tag(e) = "Read" -> [self |-> e, val |-> <<e[2], Some(e[2])>>]
      [] Tag(e) = "Write" -> [self |-> e, val |-> <<e[2], None>>]
      [] Tag(e) = "ReadWrite" -> [self |-> e, val |-> <<e[3], Some(e[2])>>]
      [] Tag(e) = "ReadObsolete" ->
            [self |-> Read(e[2]), val |-> <<e[2], Some(e[2])>>]
      [] Tag(e) = "ReadObsoleteWrite" ->
            [self |-> Read(e[2]), val |-> <<e[3], Some(e[2])>>]

\* LogVar::read(&mut self) -> (ArcAny, Option<ArcAny>):
\* self after the call, and the returned pair
read(e) ==
    CASE Tag(e) = "Read" -> [self |-> e, val |-> <<e[2], Some(e[2])>>]
      [] Tag(e) = "Write" -> [self |-> e, val |-> <<e[2], None>>]
      [] Tag(e) = "ReadWrite" -> [self |-> e, val |-> <<e[3], Some(e[2])>>]
      [] Tag(e) = "ReadObsolete" ->
            [self |-> Read(e[2]), val |-> <<e[2], Some(e[2])>>]
      [] Tag(e) = "ReadObsoleteWrite" ->
            [self |-> ReadWrite(e[2], e[3]), val |-> <<e[3], Some(e[2])>>]

\* variant of write: the obsolete variants share the arm of Read | ReadWrite
write_ClearsObsolete(e, w) ==
    CASE Tag(e) = "Write" -> Write(w)
      [] Tag(e) \in {"Read", "ReadWrite", "ReadObsolete", "ReadObsoleteWrite"} ->
            ReadWrite(e[2], w)

\* variant of write: ReadObsoleteWrite shares the arm of Read | ReadWrite,
\* a second write drops the obsolete marker
write_ObsoleteOnce(e, w) ==
    CASE Tag(e) = "Write" -> Write(w)
      [] Tag(e) = "ReadObsolete" -> ReadObsoleteWrite(e[2], w)
      [] Tag(e) \in {"Read", "ReadWrite", "ReadObsoleteWrite"} -> ReadWrite(e[2], w)

\* variant of write: on ReadWrite the old pending value is bound as the
\* original
write_ShiftsOriginal(e, w) ==
    CASE Tag(e) = "Write" -> Write(w)
      [] Tag(e) = "ReadObsolete" -> ReadObsoleteWrite(e[2], w)
      [] Tag(e) = "ReadObsoleteWrite" -> ReadObsoleteWrite(e[3], w)
      [] Tag(e) = "Read" -> ReadWrite(e[2], w)
      [] Tag(e) = "ReadWrite" -> ReadWrite(e[3], w)

\* variant of write: the results of the two Register-write arms are swapped
write_MarksObsolete(e, w) ==
    CASE Tag(e) = "Write" -> Write(w)
      [] Tag(e) \in {"ReadObsolete", "ReadObsoleteWrite"} -> ReadWrite(e[2], w)
      [] Tag(e) \in {"Read", "ReadWrite"} -> ReadObsoleteWrite(e[2], w)

\* LogVar::write(&mut self, w): self after the call
write(e, w) ==
    CASE Tag(e) = "Write" -> Write(w)
      [] Tag(e) \in {"ReadObsolete", "ReadObsoleteWrite"} -> ReadObsoleteWrite(e[2], w)
      [] Tag(e) \in {"Read", "ReadWrite"} -> ReadWrite(e[2], w)

\* variant of into_read_value: Write hands out its value
into_read_value_WriteSome(e) == Some(e[2])

\* variant of into_read_value: the two-field variants bind the second field
into_read_value_Pending(e) ==
    CASE Tag(e) \in {"Read", "ReadObsolete"} -> Some(e[2])
      [] Tag(e) \in {"ReadWrite", "ReadObsoleteWrite"} -> Some(e[3])
      [] Tag(e) = "Write" -> None

\* variant of into_read_value: the obsolete variants fall into the arm of Write
into_read_value_ObsoleteNone(e) ==
    CASE Tag(e) \in {"Read", "ReadWrite"} -> Some(e[2])
      [] Tag(e) \in {"Write", "ReadObsolete", "ReadObsoleteWrite"} -> None

\* LogVar::into_read_value(self) -> Option<ArcAny>
into_read_value(e) ==
    CASE Tag(e) \in {"Read", "ReadWrite", "ReadObsolete", "ReadObsoleteWrite"} -> Some(e[2])
      [] Tag(e) = "Write" -> None

\* Option::map(|a| ReadObsolete(a))
MapReadObsolete(o) == IF o = None THEN None ELSE Some(ReadObsolete(o[2]))

\* variant of obsolete: an entry that was only read is dropped like a Write
obsolete_DropsRead(e) ==
    IF Tag(e) = "Read" THEN None ELSE MapReadObsolete(into_read_value(e))

\* LogVar::obsolete(self) -> Option<LogVar>
obsolete(e) == MapReadObsolete(into_read_value(e))

\* the transaction log creates Read(value) or Write(value) for a variable
\* it has no entry for
Create(e) ==
    /\ entry = Gone
    /\ e \in {Read(v) : v \in Vals} \cup {Write(v) : v \in Vals}
    /\ entry' = e
    /\ op' = "new"
    /\ arg' = 0
    /\ pre' = Gone
    /\ ret' = Unit
    /\ prevOp' = "none"
    /\ prevPre' = Gone
    /\ prevRet' = Unit
    /\ base' = e
    /\ rsince' = FALSE
    /\ wpre' = Gone
    /\ warg' = 0
    /\ createdAs' = Tag(e)
    /\ everRead' = FALSE
    /\ obsCalled' = FALSE

DoRead ==
    /\ entry # Gone
    /\ entry' = read(entry).self
    /\ ret' = read(entry).val
    /\ op' = "read"
    /\ arg' = 0
    /\ pre' = entry
    /\ prevOp' = op
    /\ prevPre' = pre
    /\ prevRet' = ret
    /\ rsince' = TRUE
    /\ everRead' = TRUE
    /\ UNCHANGED <<base, wpre, warg, createdAs, obsCalled>>

DoWrite(w) ==
    /\ entry # Gone
    /\ entry' = write(entry, w)
    /\ ret' = Unit
    /\ op' = "write"
    /\ arg' = w
    /\ pre' = entry
    /\ prevOp' = op
    /\ prevPre' = pre
    /\ prevRet' = ret
    /\ wpre' = entry
    /\ warg' = w
    /\ UNCHANGED <<base, rsince, createdAs, everRead, obsCalled>>

\* obsolete consumes the entry; the log keeps the entry it returns, if any
DoObsolete ==
    /\ entry # Gone
    /\ ret' = obsolete(entry)
    /\ entry' = IF obsolete(entry) = None THEN Gone ELSE obsolete(entry)[2]
    /\ op' = "obsolete"
    /\ arg' = 0
    /\ pre' = entry
    /\ prevOp' = op
    /\ prevPre' = pre
    /\ prevRet' = ret
    /\ base' = entry'
    /\ rsince' = FALSE
    /\ wpre' = Gone
    /\ warg' = 0
    /\ obsCalled' = TRUE
    /\ UNCHANGED <<createdAs, everRead>>

\* into_read_value consumes the entry
DoIntoReadValue ==
    /\ entry # Gone
    /\ ret' = into_read_value(entry)
    /\ entry' = Gone
    /\ op' = "into_read_value"
    /\ arg' = 0
    /\ pre' = entry
    /\ prevOp' = op
    /\ prevPre' = pre
    /\ prevRet' = ret
    /\ UNCHANGED <<base, rsince, wpre, warg, createdAs, everRead, obsCalled>>

InitLogIdle ==
    /\ entry = Gone
    /\ op = "new"
    /\ arg = 0
    /\ pre = Gone
    /\ ret = Unit
    /\ prevOp = "none"
    /\ prevPre = Gone
    /\ prevRet = Unit
    /\ base = Gone
    /\ rsince = FALSE
    /\ wpre = Gone
    /\ warg = 0
    /\ createdAs = "none"
    /\ everRead = FALSE
    /\ obsCalled = FALSE

InitLog ==
    /\ entry \in {Read(v) : v \in Vals} \cup {Write(v) : v \in Vals}
    /\ op = "new"
    /\ arg = 0
    /\ pre = Gone
    /\ ret = Unit
    /\ prevOp = "none"
    /\ prevPre = Gone
    /\ prevRet = Unit
    /\ base = entry
    /\ rsince = FALSE
    /\ wpre = Gone
    /\ warg = 0
    /\ createdAs = Tag(entry)
    /\ everRead = FALSE
    /\ obsCalled = FALSE

(***************************************************************************)
(* Specifications                                                          *)
(***************************************************************************)

Init == InitCB /\ InitLogIdle

Next ==
    \/ \E t \in Threads : New(t) /\ UNCHANGED logvars
    \/ \E t \in Threads, c \in CBs : SetChangedSwap(t, c) /\ UNCHANGED logvars
    \/ \E t \in Threads : SetChangedUnpark(t) /\ UNCHANGED logvars
    \/ \E t \in Threads, c \in CBs : WaitStart(t, c) /\ UNCHANGED logvars
    \/ \E t \in Threads : WaitLoad(t) /\ UNCHANGED logvars
    \/ \E t \in Threads : ParkEnter(t) /\ UNCHANGED logvars
    \/ \E t \in Threads : ParkUnparked(t) /\ UNCHANGED logvars
    \/ \E t \in Threads : ParkTimeout(t) /\ UNCHANGED logvars
    \/ \E t \in Threads : ParkSpurious(t) /\ UNCHANGED logvars
    \/ \E t \in Threads : WaitReturn(t) /\ UNCHANGED logvars

Spec == Init /\ [][Next]_vars

\* The waiting thread keeps running and the park timer keeps counting: each
\* thread's own steps of wait are taken when they stay possible.  Spurious
\* returns of park_timeout are never promised.
Fairness == \A t \in Threads : WF_vars(WaitStep(t) /\ UNCHANGED logvars)

SpecFair == Init /\ [][Next]_vars /\ Fairness

InitL == InitCB /\ InitLog

NextLog ==
    \/ \E e \in LogVar : Create(e) /\ UNCHANGED cbvars
    \/ DoRead /\ UNCHANGED cbvars
    \/ \E w \in Vals : DoWrite(w) /\ UNCHANGED cbvars
    \/ DoObsolete /\ UNCHANGED cbvars
    \/ DoIntoReadValue /\ UNCHANGED cbvars

SpecLog == InitL /\ [][NextLog]_vars

(***************************************************************************)
(* Properties of ControlBlock                                              *)
(***************************************************************************)

\* thread t is inside the loop of wait
Waiting(t) == pc[t] \in {"w_load", "w_park", "parked"}

\* C1: a wait that started after at least one set_changed call on the same
\* ControlBlock had returned never reaches the park: it is at its first load
\* or has returned, and it has never called park_timeout.
C1_SignalBeforeWait ==
    \A t \in Threads :
        (InWait(t) /\ preDone[t] >= 1) =>
            /\ pc[t] \in {"w_load", "w_ret"}
            /\ ~susp[t]
            /\ touts[t] = 0
            /\ ~blocked[cur[t]]

\* a wait that started after two completed set_changed calls has returned
C1_Witness ==
    \E t \in Threads : pc[t] = "w_ret" /\ preDone[t] >= 2 /\ ~susp[t]

\* C2: per ControlBlock, the unpark signals issued plus those about to be
\* issued never exceed one, and a call is about to unpark only when its own
\* swap returned true (it made the blocked -> changed transition).
C2_AtMostOneUnpark ==
    \A c \in CBs :
        /\ unparks[c] + Cardinality({t \in Threads : pc[t] = "sc_unpark" /\ cur[t] = c}) <= 1
        /\ \A t \in Threads : (pc[t] = "sc_unpark" /\ cur[t] = c) => old[t]
        /\ unparks[c] <= setCalls[c]

\* two set_changed calls overlapped: the one whose swap returned false has
\* already returned while the one that made the transition has not yet
\* issued its unpark
C2_Witness ==
    \E t \in Threads :
        /\ pc[t] = "sc_unpark"
        /\ setCalls[cur[t]] >= 2
        /\ setDone[cur[t]] >= 1
        /\ unparks[cur[t]] = 0

\* C3: a wait has returned only if set_changed was called on its
\* ControlBlock; a thread that comes back from the park with the flag still
\* blocked is at the load again, not at the return.
C3_GenuineBlocking ==
    \A t \in Threads :
        /\ pc[t] = "w_ret" => (setCalls[cur[t]] >= 1 /\ ~blocked[cur[t]])
        /\ (InWait(t) /\ setCalls[cur[t]] = 0) => pc[t] # "w_ret"

\* a waiter consumed the wake signal that an earlier ControlBlock left on its
\* thread and is back at the load of a block nobody has signalled
C3_Witness ==
    \E t \in Threads :
        /\ pc[t] = "w_load"
        /\ susp[t]
        /\ setCalls[cur[t]] = 0
        /\ ~token[t]
        /\ \E d \in CBs : d # cur[t] /\ thread[d] = t /\ unparks[d] = 1

\* C4: under fairness of the waiting thread and of the park timer, a thread
\* inside wait on a ControlBlock on which set_changed has been called
\* eventually reaches the return of wait.
C4_WaitTerminates ==
    \A t \in Threads :
        (Waiting(t) /\ setCalls[cur[t]] >= 1) ~> (pc[t] = "w_ret")

\* a wait on a thread that did not construct the block has returned after a
\* timeout, while the wake signal sits unused on the constructing thread
C4_Witness ==
    \E t \in Threads :
        /\ pc[t] = "w_ret"
        /\ thread[cur[t]] # t
        /\ susp[t]
        /\ unparks[cur[t]] = 1
        /\ token[thread[cur[t]]]

\* C5: a wait sees at most one timeout expiry after a set_changed call on its
\* ControlBlock has returned, and after that expiry it does not park again.
C5_BoundedResponse ==
    \A t \in Threads :
        /\ touts[t] <= 1
        /\ touts[t] = 1 => (pc[t] \in {"w_load", "w_ret"} /\ ~blocked[cur[t]])

\* a wait has returned after exactly one timeout expiry that followed the
\* completed set_changed call
C5_Witness ==
    \E t \in Threads : pc[t] = "w_ret" /\ touts[t] = 1 /\ preDone[t] = 0

(***************************************************************************)
(* Properties of LogVar                                                    *)
(***************************************************************************)

\* the entry carries an original value
HasOriginal(e) == Tag(e) \in {"Read", "ReadWrite", "ReadObsolete", "ReadObsoleteWrite"}

\* C6: obsolete() returns None exactly when it was applied to a Write entry,
\* whatever the written value is; the log is then left without an entry.
C6_WriteObsoleteNone ==
    op = "obsolete" =>
        /\ (ret = None) <=> (Tag(pre) = "Write")
        /\ Tag(pre) = "Write" => entry = Gone

\* obsolete() was applied to a Write entry and returned None
C6_Witness == op = "obsolete" /\ Tag(pre) = "Write" /\ ret = None /\ pre[2] = MaxVal

\* C7: obsolete() applied to an entry with original v returns
\* Some(ReadObsolete(v)); the pending write, if any, is not in the result.
C7_ObsoleteKeepsOriginal ==
    (op = "obsolete" /\ HasOriginal(pre)) =>
        /\ ret = Some(ReadObsolete(pre[2]))
        /\ entry = ReadObsolete(pre[2])

\* obsolete() was applied to an entry whose pending write differs from its
\* original
C7_Witness ==
    /\ op = "obsolete"
    /\ Tag(pre) = "ReadObsoleteWrite"
    /\ pre[2] # pre[3]
    /\ ret = Some(ReadObsolete(pre[2]))

\* C8: read() on Read(v), Write(w) or ReadWrite(o,w) leaves the entry as it
\* was and returns (v, Some(v)), (w, None) or (w, Some(o)).
C8_ReadNonObsolete ==
    (op = "read" /\ Tag(pre) \in {"Read", "Write", "ReadWrite"}) =>
        /\ entry = pre
        /\ Tag(pre) = "Read" => ret = <<pre[2], Some(pre[2])>>
        /\ Tag(pre) = "Write" => ret = <<pre[2], None>>
        /\ Tag(pre) = "ReadWrite" => ret = <<pre[3], Some(pre[2])>>

\* read() was applied to a ReadWrite entry whose pending value differs from
\* its original
C8_Witness ==
    /\ op = "read"
    /\ Tag(pre) = "ReadWrite"
    /\ pre[2] # pre[3]
    /\ ret = <<pre[3], Some(pre[2])>>

\* C9: read() on ReadObsolete(o) leaves Read(o) and returns (o, Some(o));
\* read() on ReadObsoleteWrite(o,w) leaves ReadWrite(o,w) and returns
\* (w, Some(o)).
C9_ReadUpgradesObsolete ==
    /\ (op = "read" /\ Tag(pre) = "ReadObsolete") =>
            (entry = Read(pre[2]) /\ ret = <<pre[2], Some(pre[2])>>)
    /\ (op = "read" /\ Tag(pre) = "ReadObsoleteWrite") =>
            (entry = ReadWrite(pre[2], pre[3]) /\ ret = <<pre[3], Some(pre[2])>>)

\* read() was applied to a ReadObsoleteWrite entry whose two values differ
C9_Witness ==
    /\ op = "read"
    /\ Tag(pre) = "ReadObsoleteWrite"
    /\ pre[2] # pre[3]
    /\ entry = ReadWrite(pre[2], pre[3])

\* C10: write(n) leaves Write(n) on a Write entry, ReadWrite(o,n) on Read(o)
\* and ReadWrite(o,_), ReadObsoleteWrite(o,n) on ReadObsolete(o) and
\* ReadObsoleteWrite(o,_).
C10_WriteTransitions ==
    op = "write" =>
        /\ entry # Gone
        /\ Tag(pre) = "Write" => entry = Write(arg)
        /\ Tag(pre) \in {"Read", "ReadWrite"} => entry = ReadWrite(pre[2], arg)
        /\ Tag(pre) \in {"ReadObsolete", "ReadObsoleteWrite"} =>
                entry = ReadObsoleteWrite(pre[2], arg)

\* write(n) replaced a different pending value of a ReadObsoleteWrite entry
C10_Witness ==
    /\ op = "write"
    /\ Tag(pre) = "ReadObsoleteWrite"
    /\ pre[3] # arg
    /\ pre[2] # arg
    /\ entry = ReadObsoleteWrite(pre[2], arg)

\* the entry is in one of the two obsolete variants
IsObsolete(e) == Tag(e) \in {"ReadObsolete", "ReadObsoleteWrite"}

\* the original value of an entry, if it carries one
Original(e) == IF HasOriginal(e) THEN Some(e[2]) ELSE None

\* C11: an entry that obsolete() returned (ReadObsolete(o)) and that has seen
\* no read() since is still in an obsolete variant, and after one or more
\* write() calls it is ReadObsoleteWrite(o, last written value).
C11_WriteKeepsObsolete ==
    (entry # Gone /\ base # Gone /\ IsObsolete(base) /\ ~rsince) =>
        /\ IsObsolete(entry)
        /\ wpre = Gone => entry = base
        /\ wpre # Gone => entry = ReadObsoleteWrite(base[2], warg)

\* two writes of different values in a row on an obsolete entry
C11_Witness ==
    /\ op = "write"
    /\ prevOp = "write"
    /\ IsObsolete(base)
    /\ ~rsince
    /\ Tag(pre) = "ReadObsoleteWrite"
    /\ pre[3] # warg
    /\ entry = ReadObsoleteWrite(base[2], warg)

\* C12: into_read_value() returns Some(original) for Read, ReadWrite,
\* ReadObsolete and ReadObsoleteWrite, whatever the pending value, and None
\* for Write.
C12_IntoReadValue ==
    op = "into_read_value" =>
        /\ HasOriginal(pre) => ret = Some(pre[2])
        /\ Tag(pre) = "Write" => ret = None

\* into_read_value() was applied to an obsolete entry whose pending value
\* differs from its original
C12_Witness ==
    /\ op = "into_read_value"
    /\ Tag(pre) = "ReadObsoleteWrite"
    /\ pre[2] # pre[3]
    /\ ret = Some(pre[2])

\* C13: obsolete() right after the read() of ReadObsolete(o) is applied to
\* Read(o) and returns Some(ReadObsolete(o)), the entry the read started from.
C13_ReadObsoleteRoundTrip ==
    (op = "obsolete" /\ prevOp = "read" /\ Tag(prevPre) = "ReadObsolete") =>
        /\ pre = Read(prevPre[2])
        /\ ret = Some(prevPre)
        /\ entry = prevPre

\* the round trip was made with the largest value
C13_Witness ==
    /\ op = "obsolete"
    /\ prevOp = "read"
    /\ prevPre = ReadObsolete(MaxVal)
    /\ entry = ReadObsolete(MaxVal)

\* C14 as claimed: the entry carries an original exactly when it was created
\* as Read or read() has been called on it.
C14_OriginalIffReadCalled ==
    entry # Gone => (HasOriginal(entry) <=> (createdAs = "Read" \/ everRead))

\* C14 as amended: the entry carries an original exactly when it was created
\* as Read; an entry created as Write stays Write, also after read() calls.
C14_OriginalIffCreatedRead ==
    entry # Gone =>
        /\ HasOriginal(entry) <=> createdAs = "Read"
        /\ createdAs = "Write" => Tag(entry) = "Write"

\* read() was called on an entry created as Write and it still has no
\* original
C14_Witness ==
    /\ op = "read"
    /\ createdAs = "Write"
    /\ everRead
    /\ Tag(entry) = "Write"
    /\ ret = <<entry[2], None>>

\* C16: since the log got the entry (created, or returned by obsolete), read()
\* and write() calls have left its original as it was; an entry without an
\* original is still a Write.
C16_OriginalFixed ==
    (entry # Gone /\ base # Gone) =>
        /\ HasOriginal(base) => (HasOriginal(entry) /\ entry[2] = base[2])
        /\ Tag(base) = "Write" => Tag(entry) = "Write"

\* a read and two writes of values other than the original were applied to
\* an entry created as Read
C16_Witness ==
    /\ op = "write"
    /\ prevOp = "write"
    /\ rsince
    /\ Tag(base) = "Read"
    /\ Tag(pre) = "ReadWrite"
    /\ pre[3] # base[2]
    /\ warg # pre[3]
    /\ entry = ReadWrite(base[2], warg)

\* C17: a read() with a write(w) before it and no write or obsolete() in
\* between returns w as the current value and, as the original, the original
\* the entry had before that write.
C17_ReadYourWrites ==
    (op = "read" /\ wpre # Gone) => ret = <<warg, Original(wpre)>>

\* the second of two reads after a write on ReadObsolete(o) with w # o
C17_Witness ==
    /\ op = "read"
    /\ prevOp = "read"
    /\ wpre # Gone
    /\ Tag(wpre) = "ReadObsolete"
    /\ warg # wpre[2]
    /\ ret = <<warg, Some(wpre[2])>>

\* C18: as long as obsolete() has not been called on an entry created as
\* Read or Write, the entry is in none of the obsolete variants.
C18_ObsoleteOnlyByObsolete ==
    (entry # Gone /\ ~obsCalled) => ~IsObsolete(entry)

\* a read and two writes were applied without obsolete()
C18_Witness ==
    /\ ~obsCalled
    /\ everRead
    /\ op = "write"
    /\ prevOp = "write"
    /\ Tag(entry) = "ReadWrite"

\* C20: after a read() the entry is Read, Write or ReadWrite; a read() right
\* after a read() returns the same pair and leaves the entry as it was.
C20_ReadIdempotent ==
    op = "read" =>
        /\ entry # Gone
        /\ ~IsObsolete(entry)
        /\ prevOp = "read" => (ret = prevRet /\ entry = pre)

\* two reads in a row, the first applied to a ReadObsoleteWrite entry whose
\* two values differ
C20_Witness ==
    /\ op = "read"
    /\ prevOp = "read"
    /\ Tag(prevPre) = "ReadObsoleteWrite"
    /\ prevPre[2] # prevPre[3]
    /\ ret = prevRet

(***************************************************************************)
(* Further properties of ControlBlock                                      *)
(***************************************************************************)

\* C15: when the unpark of a set_changed call reaches the bound thread
\* between its load of the flag and its call of park_timeout, the token is
\* still there at the call, the thread is never suspended in the rest of this
\* wait, no timeout expiry is counted, and the next load reads the flag as
\* changed.
C15_NoLostWakeupInWindow ==
    \A t \in Threads :
        sigWin[t] =>
            /\ thread[cur[t]] = t
            /\ ~blocked[cur[t]]
            /\ pc[t] \in {"w_park", "w_load", "w_ret"}
            /\ pc[t] = "w_park" => token[t]
            /\ touts[t] = 0

\* a wait of the bound thread has returned after the signal arrived in the
\* window: park_timeout was called and came back on the pending token
C15_Witness ==
    \E t \in Threads :
        /\ sigWin[t]
        /\ pc[t] = "w_ret"
        /\ susp[t]
        /\ ~token[t]

\* a step of wait: the pc of a thread inside wait changes
WaitMoves == \E t \in Threads : pc'[t] # pc[t] /\ (InWait(t) \/ InWait(t)')

\* C19: a constructed ControlBlock is blocked until the first set_changed;
\* no step turns a changed flag back to blocked; the steps of wait leave every
\* flag as it is; a wait that started after another wait on the same block
\* had returned goes from its first load to the return without a park.
C19_FlagMonotonic ==
    /\ [](\A c \in CBs : (thread[c] # NoThread /\ setCalls[c] = 0) => blocked[c])
    /\ [](\A t \in Threads : (InWait(t) /\ preRet[t]) =>
                (pc[t] \in {"w_load", "w_ret"} /\ ~susp[t] /\ ~blocked[cur[t]]))
    /\ [][/\ \A c \in CBs : (thread[c] # NoThread /\ ~blocked[c]) => ~blocked'[c]
          /\ WaitMoves => blocked' = blocked]_vars

\* a second wait on a block has returned without a park
C19_Witness ==
    \E t \in Threads : pc[t] = "w_ret" /\ preRet[t] /\ ~susp[t] /\ retd[cur[t]]

====
